---- MODULE Spec2Model ----
(***************************************************************************)
(* Model of the landing-page backend: the document store (app/db.py), the  *)
(* page routes (app/routes/pages.py), the generation client                *)
(* (app/llm/generator.py) and the prompt composer (app/llm/prompts.py).    *)
(*                                                                         *)
(* Every store call (find_one, insert_one, find_one_and_update,            *)
(* delete_one) is one atomic step; a route handler is the sequence of its  *)
(* store calls.  Handlers of different requests interleave between store   *)
(* calls: the store is the one resource shared by the worker processes.    *)
(***************************************************************************)
EXTENDS Integers, Sequences, FiniteSets, TLC

VARIABLES
    store,    \* pages collection: page_id -> document, or NoDoc
    req,      \* per request slot: the handler's local variables and position
    last,     \* the response sent last, with the request it answers
    gen,      \* the Generate request handled last: its inputs, prompt and result
    ideal,    \* per page: the sections if every successful write had been applied
              \* to the stored sections atomically, in the order of the writes
    base,     \* per page: the version the stored document was created with
    succ,     \* per page: mutations that reported success since creation
    started,  \* per page: mutation requests that found the document
    unique_index,  \* whether init_db created the unique index on page_id
    extra,    \* per page_id: the further documents inserted with that page_id,
              \* in insertion order (store holds the one find_one returns)
    crawler   \* one call of WebCrawler.crawl_website: its arguments, the site
              \* it fetches from, its locals, its position and what it returned

vars == <<store, req, last, gen, ideal, base, succ, started, unique_index, extra,
          crawler>>

-----------------------------------------------------------------------------
(* Bounds *)

\* mutation requests admitted per stored document
MaxMutations == 3

\* further documents admitted per page_id when the unique index is missing
MaxExtra == 1

Slots == {"r1", "r2"}

\* anchors in the homepage markup
MaxAnchors == 3

-----------------------------------------------------------------------------
(* Values *)

None == "None"

\* Python truthiness of an Optional[str]
Truthy(s) == s # None /\ s # ""

\* dict.get(k, default)
Get(d, k, default) == IF k \in DOMAIN d THEN d[k] ELSE default

EmptyDict == [k \in {} |-> None]

NoDoc == [exists |-> FALSE]

PageIds == {"landing-p1", "landing-u1"}

\* identifiers uuid4 can yield for a page
FreshIds == {"landing-u1"}

\* identifiers uuid4 can yield for the template of a prompt
PromptIds == {"landing-a1", "landing-a2"}

\* section data: the texts of its primary content
DataGenerated == [items |-> <<"q1", "q2", "q3">>]
DataEdited == [items |-> <<"e1">>]
DataRegenerated == [items |-> <<"q4", "q5", "q6">>]

Brief1 ==
    [industry |-> "bakery", offer |-> "custom cakes",
     target_audience |-> "event planners", brand_tone |-> "warm"]
Brief2 ==
    [industry |-> "saas", offer |-> "ai tool",
     target_audience |-> "developers", brand_tone |-> "modern"]

Hero == [id |-> "hero-1", type |-> "hero", order |-> 0, data |-> DataGenerated]
Faq == [id |-> "faq-1", type |-> "faq", order |-> 1, data |-> DataGenerated]

Sections0 == <<Hero, Faq>>

-----------------------------------------------------------------------------
(* Context extractor: app/crawler.py *)

\* crawl_website's default for max_inner_pages
max_inner_pages_default == 2

\* _extract_internal_links returns this many of the links it collected
links_cap == 5

\* A URL or an href as urlparse splits it.  A path is the sequence of its
\* pieces, separators included: "/about/" is <<"/", "about", "/">>.
Url(scheme, netloc, path, query, fragment) ==
    [scheme |-> scheme, netloc |-> netloc, path |-> path, query |-> query,
     fragment |-> fragment]

\* "https://brand.example", the website_url of the requests
base_url == Url("https", "brand.example", <<>>, "", "")

AboutUrl == Url("https", "brand.example", <<"/", "about">>, "", "")

PricingUrl == Url("https", "brand.example", <<"/", "pricing">>, "", "")

\* the hrefs of the anchors a homepage carries: "#top", "/about", "/pricing",
\* "/about?ref=nav#team", "https://other.example/about", "/", "http://[bad"
Hrefs ==
    {Url("", "", <<>>, "", "top"),
     Url("", "", <<"/", "about">>, "", ""),
     Url("", "", <<"/", "pricing">>, "", ""),
     Url("", "", <<"/", "about">>, "ref=nav", "team"),
     Url("https", "other.example", <<"/", "about">>, "", ""),
     Url("", "", <<"/">>, "", ""),
     Url("http", "[bad", <<>>, "", "")}

\* href.startswith(('#', 'mailto:', 'tel:', 'javascript:'))
href_skipped(href) ==
    \/ href.scheme \in {"mailto", "tel", "javascript"}
    \/ /\ href.scheme = "" /\ href.netloc = "" /\ href.path = <<>>
       /\ href.query = "" /\ href.fragment # ""

\* urlsplit raises ValueError on a bracket that is never closed
urljoin_raises(href) == href.netloc = "[bad"

\* urljoin(base, href) for an href that is absolute, host-relative or empty
\* of path (the hrefs of Hrefs; a path relative to the base's directory is
\* not among them)
urljoin(base_, href) ==
    IF href.scheme # "" THEN href
    ELSE IF href.netloc # "" THEN [href EXCEPT !.scheme = base_.scheme]
    ELSE IF href.path = <<>>
         THEN [base_ EXCEPT !.query = IF href.query # "" THEN href.query
                                       ELSE base_.query,
                            !.fragment = href.fragment]
    ELSE [base_ EXCEPT !.path = href.path, !.query = href.query,
                       !.fragment = href.fragment]

\* f"{parsed.scheme}://{parsed.netloc}{parsed.path}"
clean_url(parsed) == Url(parsed.scheme, parsed.netloc, parsed.path, "", "")

\* str.rstrip('/') of a URL without query and fragment
RECURSIVE rstrip_slash(_)
rstrip_slash(url) ==
    IF url.path # <<>> /\ url.path[Len(url.path)] = "/"
    THEN rstrip_slash([url EXCEPT !.path = SubSeq(url.path, 1, Len(url.path) - 1)])
    ELSE url

\* the set `links` when the loop over the anchors ends
extract_links_set(base_, html) ==
    {clean_url(urljoin(base_, html[k])) :
        k \in {j \in DOMAIN html :
                 /\ ~href_skipped(html[j])
                 /\ urljoin(base_, html[j]).netloc = base_.netloc
                 /\ rstrip_slash(clean_url(urljoin(base_, html[j])))
                        # rstrip_slash(base_)}}

\* the loop over the anchors raises: urljoin on an href it is not skipping
extract_raises(base_, html) ==
    \E j \in DOMAIN html : ~href_skipped(html[j]) /\ urljoin_raises(html[j])

\* list(links): a set of str iterates in the order of the hashes of its
\* elements, which the interpreter salts per process; every order can come
list_of_set(S) ==
    {s \in [1..Cardinality(S) -> S] :
        \A a, b \in 1..Cardinality(S) : a # b => s[a] # s[b]}

\* s[:n] of Python
slice_to(s, n) ==
    SubSeq(s, 1, IF n >= 0 THEN (IF n < Len(s) THEN n ELSE Len(s))
                 ELSE (IF Len(s) + n > 0 THEN Len(s) + n ELSE 0))

\* the lists _extract_internal_links can return when it does not raise
_extract_internal_links(base_, html) ==
    {slice_to(s, links_cap) : s \in list_of_set(extract_links_set(base_, html))}

\* what a page of the site holds besides its anchors; the texts are shorter
\* than the 3000 characters _get_clean_text keeps and the 800 of the preview
PageContent(url) ==
    IF url = base_url
    THEN [title |-> "Brand", meta_description |-> "Brand makes tools",
          headings |-> [h1 |-> <<"Welcome", "Tools", "Teams", "Prices">>,
                        h2 |-> <<>>, h3 |-> <<>>],
          text_content |-> "Welcome to Brand"]
    ELSE IF url = AboutUrl
    THEN [title |-> "About", meta_description |-> "",
          headings |-> [h1 |-> <<"About us">>, h2 |-> <<>>, h3 |-> <<>>],
          text_content |-> "About Brand"]
    ELSE [title |-> "", meta_description |-> "",
          headings |-> [h1 |-> <<>>, h2 |-> <<>>, h3 |-> <<>>],
          text_content |-> "Plans"]

\* _fetch_page_data returned None
NoPageData == [none |-> TRUE]

\* (mutant) a failed fetch yields a record of an empty page
fetch_page_data_partial(url, site) ==
    [url |-> url, title |-> "", meta_description |-> "",
     headings |-> [h1 |-> <<>>, h2 |-> <<>>, h3 |-> <<>>],
     text_content |-> "", html |-> <<>>]

\* _fetch_page_data: the page record, or None when requests.get, the status
\* check or the parse raised; site.failing holds the URLs whose fetch fails
\* (network error, error status, timeout), site.html the homepage's anchors
_fetch_page_data(url, site) ==
    IF url \in site.failing THEN NoPageData
    ELSE [url |-> url, title |-> PageContent(url).title,
          meta_description |-> PageContent(url).meta_description,
          headings |-> PageContent(url).headings,
          text_content |-> PageContent(url).text_content,
          html |-> IF url = base_url THEN site.html ELSE <<>>]

\* the parts one page contributes to context_parts; i counts from 0
brand_context_parts(page, i) ==
    <<[part |-> "marker",
       label |-> IF i = 0 THEN "HOME PAGE" ELSE "PAGE", index |-> i,
       url |-> page.url]>>
    \o (IF page.title # ""
        THEN <<[part |-> "Title", text |-> page.title]>> ELSE <<>>)
    \o (IF page.meta_description # ""
        THEN <<[part |-> "Description", text |-> page.meta_description]>>
        ELSE <<>>)
    \o (IF page.headings.h1 # <<>>
        THEN <<[part |-> "Main Headings",
                headings |-> slice_to(page.headings.h1, 3)]>>
        ELSE <<>>)
    \o <<[part |-> "Content Preview", text |-> page.text_content]>>

RECURSIVE build_parts(_, _)
build_parts(pages, n) ==
    IF n = 0 THEN <<>>
    ELSE build_parts(pages, n - 1) \o brand_context_parts(pages[n], n - 1)

\* _build_brand_context: the parts that '\n'.join makes the string of
_build_brand_context(pages) == build_parts(pages, Len(pages))

\* crawl_website returned None
NotAvailable == [kind |-> "None"]

\* crawl_website has not returned
NoResult == [kind |-> "running"]

\* no earlier call on the same site
NoRun == [kind |-> "none"]

\* no call of crawl_website
IdleCrawl ==
    [pc |-> "idle", max_inner_pages |-> max_inner_pages_default,
     site |-> [html |-> <<>>, failing |-> {}],
     pages_data |-> <<>>, inner_links |-> <<>>, selected |-> <<>>, i |-> 1,
     attempted |-> <<>>, result |-> NoResult, previous |-> NoRun]

-----------------------------------------------------------------------------
(* Prompt composer: app/llm/prompts.py *)

NoPrompt == [kind |-> "none"]

\* (mutant) the block is left out for None only
has_brand_context_not_none(crawled_context) ==
    crawled_context # None

\* `if crawled_context:`
has_brand_context(crawled_context) ==
    Truthy(crawled_context)

\* The prompt as the values the template interpolates: the four fields under
\* USER REQUIREMENTS, the heading and body of the brand context block (both
\* empty without one) and the tone instruction.  The fixed text of the
\* template mentions "brand context" in lower case only.
build_landing_page_prompt(user_input, crawled_context, unique_page_id) ==
    LET brand_tone == Get(user_input, "brand_tone", "professional")
    IN  [kind |-> "landing",
         pageId |-> unique_page_id,
         industry |-> Get(user_input, "industry", "general business"),
         offer |-> Get(user_input, "offer", ""),
         target_audience |-> Get(user_input, "target_audience", ""),
         brand_tone |-> brand_tone,
         brand_context_heading |->
             IF has_brand_context(crawled_context)
             THEN "## BRAND CONTEXT (Crawled from Website)" ELSE "",
         brand_context_section |->
             IF has_brand_context(crawled_context) THEN crawled_context ELSE "",
         tone_instruction |->
             IF has_brand_context(crawled_context)
             THEN [kind |-> "primary_reference", tone |-> None]
             ELSE [kind |-> "literal_tone", tone |-> brand_tone]]

build_section_regenerate_prompt(section, user_context, crawled_context) ==
    [kind |-> "section",
     industry |-> Get(user_context, "industry", ""),
     offer |-> Get(user_context, "offer", ""),
     target_audience |-> Get(user_context, "target_audience", ""),
     brand_tone |-> Get(user_context, "brand_tone", ""),
     crawl_info |-> IF Truthy(crawled_context) THEN crawled_context ELSE "",
     section_type |-> Get(section, "type", None),
     current_data |-> Get(section, "data", [items |-> <<>>]),
     id |-> Get(section, "id", None),
     order |-> Get(section, "order", 0)]

\* a landing prompt without its injected fresh identifier
PromptBody(p) == [k \in DOMAIN p \ {"pageId"} |-> p[k]]

-----------------------------------------------------------------------------
(* Generation client: app/llm/generator.py *)

\* The prompt generate_page_spec sends.  It reads the URL from user_input and
\* resets crawled_context before crawling, so the argument is not consulted;
\* `recrawl` is what crawler.crawl_website returns if it is called here.
generate_page_spec_prompt(user_input, crawled_context, recrawl, unique_page_id) ==
    LET website_url == Get(user_input, "url", None)
        crawled == IF Truthy(website_url) THEN recrawl ELSE None
    IN  build_landing_page_prompt(user_input, crawled, unique_page_id)

\* The prompt regenerate_section sends: `context` is the dict the endpoint
\* passes as its second argument.
regenerate_section_prompt(section, context, recrawl) ==
    LET website_url == Get(context, "url", None)
        crawled == IF Truthy(website_url) THEN recrawl ELSE None
    IN  build_section_regenerate_prompt(section, context, crawled)

\* (mutant) text that does not parse is repaired to an empty object
parse_response_repair(out) ==
    CASE out.kind = "error" ->
           [raised |-> "Exception", value |-> EmptyDict]
      [] out.kind = "nonjson" ->
           [raised |-> "no", value |-> EmptyDict]
      [] OTHER ->
           [raised |-> "no", value |-> out.value]

\* (mutant) a JSON parse failure is raised like any other failure
parse_response_collapse(out) ==
    CASE out.kind \in {"error", "nonjson"} ->
           [raised |-> "Exception", value |-> EmptyDict]
      [] OTHER ->
           [raised |-> "no", value |-> out.value]

\* What the client returns for a provider outcome: the parsed value, or the
\* exception it raises (ValueError on a JSON parse failure, Exception otherwise).
parse_response(out) ==
    CASE out.kind = "error" ->
           [raised |-> "Exception", value |-> EmptyDict]
      [] out.kind = "nonjson" ->
           [raised |-> "ValueError", value |-> EmptyDict]
      [] OTHER ->
           [raised |-> "no", value |-> out.value]

-----------------------------------------------------------------------------
(* Document store: app/db.py *)

Min(S) == CHOOSE x \in S : \A y \in S : x <= y

\* (mutant) the default is assigned whether or not the key is present
set_always(d, k, x) ==
    [kk \in DOMAIN d \cup {k} |-> IF kk = k THEN x ELSE d[kk]]

SetDefault(d, k, x) ==
    [kk \in DOMAIN d \cup {k} |-> IF kk \in DOMAIN d THEN d[kk] ELSE x]

\* the document save_page builds from a page spec
save_page_document(page_spec, user_context, crawled_context) ==
    [page_id |-> Get(page_spec, "pageId", None),
     version |-> Get(page_spec, "version", 1),
     sections |-> Get(page_spec, "sections", <<>>),
     published |-> FALSE,
     user_context |-> user_context,
     crawled_context |-> crawled_context]

\* insert_one under the unique index on page_id: a second document with a
\* stored page_id raises DuplicateKeyError
insert_raises(st, document) == unique_index /\ st[document.page_id] # NoDoc

\* insert_one: the collection's first document with the page_id afterwards
insert_one(st, document) ==
    IF st[document.page_id] = NoDoc
    THEN [st EXCEPT ![document.page_id] = document]
    ELSE st

\* insert_one: the further documents with the page_id afterwards
insert_one_extra(st, ex, document) ==
    IF st[document.page_id] = NoDoc
    THEN ex
    ELSE [ex EXCEPT ![document.page_id] = Append(@, document)]

\* find_one({"page_id": page_id})
get_page(st, page_id) == st[page_id]

\* the version update_page computes from the document it has just read
update_page_new_version(page) == page.version + 1

\* (mutant) the update inserts a document when none matches (upsert)
update_page_write_upsert(st, page_id, sections, new_version) ==
    IF st[page_id] = NoDoc
    THEN [st EXCEPT ![page_id] =
             [page_id |-> page_id, version |-> new_version,
              sections |-> sections, published |-> FALSE,
              user_context |-> EmptyDict, crawled_context |-> None]]
    ELSE [st EXCEPT ![page_id].sections = sections,
                    ![page_id].version = new_version]

\* (mutant) the update replaces the document's other fields by their defaults
update_page_write_replace(st, page_id, sections, new_version) ==
    IF st[page_id] = NoDoc
    THEN st
    ELSE [st EXCEPT ![page_id].sections = sections,
                    ![page_id].version = new_version,
                    ![page_id].published = FALSE]

\* find_one_and_update of update_page: sets sections and version
update_page_write(st, page_id, sections, new_version) ==
    IF st[page_id] = NoDoc
    THEN st
    ELSE [st EXCEPT ![page_id].sections = sections,
                    ![page_id].version = new_version]

\* (mutant) publishing also bumps the version
publish_page_bump(st, page_id) ==
    IF st[page_id] = NoDoc
    THEN st
    ELSE [st EXCEPT ![page_id].published = TRUE, ![page_id].version = @ + 1]

\* find_one_and_update of publish_page: sets the published flag
publish_page(st, page_id) ==
    IF st[page_id] = NoDoc
    THEN st
    ELSE [st EXCEPT ![page_id].published = TRUE]

\* delete_one: removes the first document with the page_id
delete_page(st, ex, page_id) ==
    IF ex[page_id] = <<>>
    THEN [st EXCEPT ![page_id] = NoDoc]
    ELSE [st EXCEPT ![page_id] = Head(ex[page_id])]

delete_page_extra(ex, page_id) ==
    IF ex[page_id] = <<>> THEN ex ELSE [ex EXCEPT ![page_id] = Tail(@)]

-----------------------------------------------------------------------------
(* Section lookup and splice of the routes: app/routes/pages.py *)

\* `for section in sections: if section["id"] == section_id`: the position the
\* loop stops at (0: it ran to the end).  A section without "id" stops it with
\* a KeyError.
ScanIdx(sections, section_id) ==
    LET hits == {i \in 1..Len(sections) :
                    \/ "id" \notin DOMAIN sections[i]
                    \/ sections[i].id = section_id}
    IN  IF hits = {} THEN 0 ELSE Min(hits)

ScanRaises(sections, section_id) ==
    LET i == ScanIdx(sections, section_id)
    IN  i # 0 /\ "id" \notin DOMAIN sections[i]

\* (mutant) section.update(data): the caller's keys are merged into the section
splice_update(sections, section_id, data) ==
    LET i == ScanIdx(sections, section_id)
    IN  [sections EXCEPT ![i] =
            [k \in DOMAIN @ \cup DOMAIN data |->
                IF k \in DOMAIN data THEN data[k] ELSE @[k]]]

\* section["data"] = data on the section the loop found
Splice(sections, section_id, data) ==
    LET i == ScanIdx(sections, section_id)
    IN  [sections EXCEPT ![i] = SetDefault([k \in DOMAIN @ \ {"data"} |-> @[k]],
                                           "data", data)]

\* SectionData of the response model: id, type, order and data are required
SectionDataValid(s) == {"id", "type", "order", "data"} \subseteq DOMAIN s

-----------------------------------------------------------------------------
(* Requests *)

NoSection == [id |-> None]

\* a slot with no request in flight
IdleReq ==
    [op |-> "none", pc |-> "idle", page_id |-> None, section_id |-> None,
     data |-> EmptyDict, sections |-> <<>>, section |-> NoSection,
     new_version |-> 0, outcome |-> "none", prompt |-> NoPrompt]

NoResp ==
    [slot |-> None, op |-> "none", page_id |-> None, section_id |-> None,
     data |-> EmptyDict,
     outcome |-> "none", prompt |-> NoPrompt, status |-> 0, detail |-> "none"]

NoGen == [op |-> "none"]

\* no body: the handler raised
NoBody == [kind |-> "none"]

\* Slots name the requests in flight and nothing else: a new request takes
\* the first slot that is idle.
Free(r) ==
    /\ req[r].pc = "idle"
    /\ r = "r1" \/ req["r1"].pc # "idle"

\* the response to a request of slot r that held no locals
Response(r, op, page_id, outcome, status, detail) ==
    [slot |-> r, op |-> op, page_id |-> page_id, section_id |-> None,
     data |-> EmptyDict,
     outcome |-> outcome, prompt |-> NoPrompt, status |-> status,
     detail |-> detail]

\* the response to the request in flight q of slot r
Answer(r, q, status, detail) ==
    [slot |-> r, op |-> q.op, page_id |-> q.page_id,
     section_id |-> q.section_id, data |-> q.data,
     outcome |-> q.outcome, prompt |-> q.prompt, status |-> status,
     detail |-> detail]

Init ==
    /\ store = [p \in PageIds |-> NoDoc]
    /\ req = [r \in Slots |-> IdleReq]
    /\ last = NoResp
    /\ gen = NoGen
    /\ ideal = [p \in PageIds |-> <<>>]
    /\ base = [p \in PageIds |-> 0]
    /\ succ = [p \in PageIds |-> 0]
    /\ started = [p \in PageIds |-> 0]
    /\ unique_index = TRUE
    /\ extra = [p \in PageIds |-> <<>>]
    /\ crawler = IdleCrawl

-----------------------------------------------------------------------------
(* POST /pages/generate: generate_landing_page *)

\* (mutant) a failed crawl falls back to the URL itself as context
route_crawled_context_fallback(website_url, crawl) ==
    IF Truthy(website_url)
    THEN IF Truthy(crawl) THEN crawl ELSE website_url
    ELSE None

\* crawled_context of the route: the crawl result when a URL is given
route_crawled_context(website_url, crawl) ==
    IF Truthy(website_url) THEN crawl ELSE None

\* What the handler does with the client's result: the store afterwards, the
\* response, and the document save_page returned (NoDoc: it was not called or
\* it raised).
generate_result(st, user_input, crawled_context, out, new_id) ==
    LET parsed == parse_response(out)
        fail(status, detail) ==
            [store |-> st, status |-> status, detail |-> detail, saved |-> NoDoc,
             returned |-> NoBody]
    IN  IF parsed.raised = "ValueError" THEN fail(400, "parse")
        ELSE IF parsed.raised = "Exception" THEN fail(500, "provider")
        ELSE IF out.kind = "array" THEN fail(500, "type")
        ELSE
          LET spec1 == SetDefault(parsed.value, "pageId", new_id)
              page_spec == SetDefault(spec1, "version", 1)
              document == save_page_document(page_spec, user_input, crawled_context)
          IN  IF insert_raises(st, document) THEN fail(500, "duplicate")
              ELSE
                LET st2 == insert_one(st, document)
                    answer(status, detail, returned) ==
                        [store |-> st2, status |-> status, detail |-> detail,
                         saved |-> document, returned |-> returned]
                IN  IF "sections" \notin DOMAIN page_spec
                    THEN answer(500, "keyerror", NoBody)
                    ELSE IF \E i \in 1..Len(page_spec.sections) :
                                ~SectionDataValid(page_spec.sections[i])
                    THEN answer(400, "schema", NoBody)
                    ELSE answer(200, "ok",
                                [pageId |-> page_spec.pageId,
                                 version |-> page_spec.version,
                                 sections |-> page_spec.sections])

generate_landing_page(r, request, crawl, recrawl, prompt_id, new_id, out) ==
    /\ Free(r)
    /\ LET user_input ==
               [industry |-> request.industry, offer |-> request.offer,
                target_audience |-> request.target_audience,
                brand_tone |-> request.brand_tone]
           crawled_context == route_crawled_context(request.website_url, crawl)
           prompt == generate_page_spec_prompt(user_input, crawled_context,
                                               recrawl, prompt_id)
           res == generate_result(store, user_input, crawled_context, out, new_id)
           pid == IF res.saved = NoDoc THEN None ELSE res.saved.page_id
       IN  /\ store' = res.store
           /\ last' = Response(r, "generate", pid, out.kind, res.status, res.detail)
           /\ gen' = [op |-> "generate", user_input |-> user_input,
                      website_url |-> request.website_url,
                      extraction |->
                          IF Truthy(request.website_url) THEN crawl ELSE None,
                      prompt |-> prompt,
                      output |-> out,
                      status |-> res.status,
                      detail |-> res.detail,
                      saved |-> res.saved,
                      returned |-> res.returned]
           /\ extra' = IF res.saved = NoDoc THEN extra
                        ELSE insert_one_extra(store, extra, res.saved)
           /\ IF res.store = store
              THEN UNCHANGED <<ideal, base, succ, started>>
              ELSE /\ ideal' = [ideal EXCEPT ![pid] = res.saved.sections]
                   /\ base' = [base EXCEPT ![pid] = res.saved.version]
                   /\ succ' = [succ EXCEPT ![pid] = 0]
                   /\ started' = [started EXCEPT ![pid] = 0]
    /\ UNCHANGED <<crawler, req, unique_index>>

-----------------------------------------------------------------------------
(* GET /pages/{page_id}: get_landing_page *)

\* lines 130-140: the body the handler returns for a stored document
get_landing_page_response_data(page) ==
    LET response_data ==
            [pageId |-> page.page_id, version |-> page.version,
             sections |-> page.sections]
    IN  IF page.user_context # EmptyDict
        THEN SetDefault(response_data, "user_context", page.user_context)
        ELSE response_data

\* A body whose sections the response model rejects is answered 500.
get_landing_page(r, page_id) ==
    /\ Free(r)
    /\ LET page == get_page(store, page_id)
       IN  last' = IF page = NoDoc
                   THEN Response(r, "fetch", page_id, "none", 404, "page")
                   ELSE IF \E i \in 1..Len(page.sections) :
                               ~SectionDataValid(page.sections[i])
                   THEN Response(r, "fetch", page_id, "none", 500, "schema")
                   ELSE [Response(r, "fetch", page_id, "none", 200, "ok")
                            EXCEPT !.data = get_landing_page_response_data(page)]
    /\ UNCHANGED <<crawler, unique_index, extra, store, req, gen, ideal, base, succ, started>>

-----------------------------------------------------------------------------
(* update_page as the mutation handlers call it: a read, then a write *)

\* the sections after a write of request q, had it been applied atomically
\* to the sections `sections`
IdealWrite(sections, q) ==
    IF q.op = "reorder" THEN q.sections
    ELSE IF ScanIdx(sections, q.section_id) = 0 THEN sections
    ELSE Splice(sections, q.section_id,
                q.sections[ScanIdx(q.sections, q.section_id)].data)

\* db.py line 92: get_page inside update_page.  No document: update_page
\* returns None and the handler's updated_page["version"] raises.
update_page_read(r) ==
    /\ req[r].pc = "upd_read"
    /\ LET page == get_page(store, req[r].page_id)
       IN  IF page = NoDoc
           THEN /\ req' = [req EXCEPT ![r] = IdleReq]
                /\ last' = Answer(r, req[r], 500, "none")
           ELSE /\ req' = [req EXCEPT ![r].pc = "upd_write",
                                      ![r].new_version = update_page_new_version(page)]
                /\ UNCHANGED last
    /\ UNCHANGED <<crawler, unique_index, extra, store, gen, ideal, base, succ, started>>

\* db.py line 98: find_one_and_update.  No document: it returns None and the
\* handler's updated_page["version"] raises.
update_page_find_one_and_update(r) ==
    /\ req[r].pc = "upd_write"
    /\ LET p == req[r].page_id
       IN  /\ store' = update_page_write(store, p, req[r].sections, req[r].new_version)
           /\ req' = [req EXCEPT ![r] = IdleReq]
           /\ IF store[p] = NoDoc
              THEN /\ last' = Answer(r, req[r], 500, "none")
                   /\ UNCHANGED <<ideal, succ>>
              ELSE /\ last' = Answer(r, req[r], 200, "ok")
                   /\ succ' = [succ EXCEPT ![p] = @ + 1]
                   /\ ideal' = [ideal EXCEPT ![p] = IdealWrite(@, req[r])]
    /\ UNCHANGED <<crawler, unique_index, extra, gen, base, started>>

-----------------------------------------------------------------------------
(* POST /pages/{page_id}/edit-section: edit_section, up to update_page *)

\* lines 163-185: the outcome of the lookup, for the edit and regenerate handlers
lookup(page, section_id) ==
    IF page = NoDoc THEN "page_not_found"
    ELSE IF ScanRaises(page.sections, section_id) THEN "keyerror"
    ELSE IF ScanIdx(page.sections, section_id) = 0 THEN "section_not_found"
    ELSE "found"

\* the response of the edit and regenerate handlers to a failed lookup
lookup_response(r, op, page_id, section_id, found) ==
    LET answer(status, detail) ==
            [Response(r, op, page_id, "none", status, detail)
                EXCEPT !.section_id = section_id]
    IN  CASE found = "page_not_found" -> answer(404, "page")
          [] found = "section_not_found" -> answer(404, "section")
          [] OTHER -> answer(500, "keyerror")

edit_section(r, page_id, section_id, data) ==
    /\ Free(r)
    /\ LET page == get_page(store, page_id)
           found == lookup(page, section_id)
       IN  IF found # "found"
           THEN /\ last' = lookup_response(r, "edit", page_id, section_id, found)
                /\ UNCHANGED <<req, started>>
           ELSE /\ started[page_id] < MaxMutations
                /\ req' = [req EXCEPT ![r] =
                              [IdleReq EXCEPT
                                  !.op = "edit", !.pc = "upd_read",
                                  !.page_id = page_id, !.section_id = section_id,
                                  !.data = data,
                                  !.sections = Splice(page.sections, section_id, data)]]
                /\ started' = [started EXCEPT ![page_id] = @ + 1]
                /\ UNCHANGED last
    /\ UNCHANGED <<crawler, unique_index, extra, store, gen, ideal, base, succ>>

-----------------------------------------------------------------------------
(* POST /pages/{page_id}/regenerate-section: regenerate_section_endpoint *)

\* lines 218-239: read the page and find the section
regenerate_section_endpoint(r, page_id, section_id, data) ==
    /\ Free(r)
    /\ LET page == get_page(store, page_id)
           found == lookup(page, section_id)
       IN  IF found # "found"
           THEN /\ last' = lookup_response(r, "regen", page_id, section_id, found)
                /\ UNCHANGED <<req, started>>
           ELSE /\ started[page_id] < MaxMutations
                /\ req' = [req EXCEPT ![r] =
                              [IdleReq EXCEPT
                                  !.op = "regen", !.pc = "call",
                                  !.page_id = page_id, !.section_id = section_id,
                                  !.data = data,
                                  !.sections = page.sections,
                                  !.section = page.sections[ScanIdx(page.sections,
                                                                    section_id)]]]
                /\ started' = [started EXCEPT ![page_id] = @ + 1]
                /\ UNCHANGED last
    /\ UNCHANGED <<crawler, unique_index, extra, store, gen, ideal, base, succ>>

\* (mutant) the returned section replaces the stored one whole
regenerate_replace(sections, section_id, regenerated) ==
    [sections EXCEPT ![ScanIdx(sections, section_id)] = regenerated]

\* section["data"] = regenerated["data"] on the handler's local sections
regenerate_splice(sections, section_id, regenerated) ==
    Splice(sections, section_id, regenerated.data)

\* (mutant) a missing "data" is spliced in as an empty payload
regenerate_apply_lenient(sections, section_id, out) ==
    LET parsed == parse_response(out)
        fail(detail) == [detail |-> detail, sections |-> sections]
    IN  IF parsed.raised = "ValueError" THEN fail("parse")
        ELSE IF parsed.raised = "Exception" THEN fail("provider")
        ELSE IF out.kind = "array" THEN fail("type")
        ELSE [detail |-> "ok",
              sections |-> Splice(sections, section_id,
                                  Get(parsed.value, "data", [items |-> <<>>]))]

\* lines 243-249: what the handler does with the client's result: the failure
\* it answers with ("ok": none) and its local sections afterwards
regenerate_apply(sections, section_id, out) ==
    LET parsed == parse_response(out)
        fail(detail) == [detail |-> detail, sections |-> sections]
    IN  IF parsed.raised = "ValueError" THEN fail("parse")
        ELSE IF parsed.raised = "Exception" THEN fail("provider")
        ELSE IF out.kind = "array" THEN fail("type")
        ELSE IF "data" \notin DOMAIN parsed.value THEN fail("nodata")
        ELSE [detail |-> "ok",
              sections |-> regenerate_splice(sections, section_id, parsed.value)]

\* what the provider returned to a regeneration, as the request records it
RegenerateOutcome(out) ==
    IF out.kind = "object" /\ "data" \notin DOMAIN out.value
    THEN "nodata"
    ELSE out.kind

\* the context the endpoint hands to the client: request.data.get("context", {})
regenerate_context(data) == Get(data, "context", EmptyDict)

\* lines 241-249: the provider call and the splice
regenerate_section_call(r, out, recrawl) ==
    /\ req[r].pc = "call"
    /\ LET user_input == regenerate_context(req[r].data)
           prompt == regenerate_section_prompt(req[r].section, user_input, recrawl)
           res == regenerate_apply(req[r].sections, req[r].section_id, out)
           sentq == [req[r] EXCEPT !.outcome = RegenerateOutcome(out),
                                   !.prompt = prompt]
       IN  IF "type" \notin DOMAIN req[r].section
           THEN \* section_type.upper() raises before anything is sent
                /\ req' = [req EXCEPT ![r] = IdleReq]
                /\ last' = Answer(r, [req[r] EXCEPT !.outcome = "unsent"],
                                  500, "attribute")
           ELSE IF res.detail # "ok"
           THEN /\ req' = [req EXCEPT ![r] = IdleReq]
                /\ last' = Answer(r, sentq, 500, res.detail)
           ELSE /\ req' = [req EXCEPT ![r] =
                              [sentq EXCEPT !.pc = "upd_read",
                                            !.sections = res.sections]]
                /\ UNCHANGED last
    /\ UNCHANGED <<crawler, unique_index, extra, store, gen, ideal, base, succ, started>>

-----------------------------------------------------------------------------
(* POST /pages/{page_id}/reorder-sections: reorder_sections, up to update_page *)

reorder_sections(r, page_id, sections) ==
    /\ Free(r)
    /\ LET page == get_page(store, page_id)
       IN  IF page = NoDoc
           THEN /\ last' = Response(r, "reorder", page_id, "none", 404, "page")
                /\ UNCHANGED <<req, started>>
           ELSE /\ started[page_id] < MaxMutations
                /\ req' = [req EXCEPT ![r] =
                              [IdleReq EXCEPT
                                  !.op = "reorder", !.pc = "upd_read",
                                  !.page_id = page_id, !.sections = sections]]
                /\ started' = [started EXCEPT ![page_id] = @ + 1]
                /\ UNCHANGED last
    /\ UNCHANGED <<crawler, unique_index, extra, store, gen, ideal, base, succ>>

-----------------------------------------------------------------------------
(* POST /pages/{page_id}/publish: publish_landing_page *)

\* lines 320-326: get_page
publish_landing_page(r, page_id) ==
    /\ Free(r)
    /\ LET page == get_page(store, page_id)
       IN  IF page = NoDoc
           THEN /\ last' = Response(r, "publish", page_id, "none", 404, "page")
                /\ UNCHANGED req
           ELSE /\ req' = [req EXCEPT ![r] =
                              [IdleReq EXCEPT !.op = "publish", !.pc = "pub_write",
                                              !.page_id = page_id]]
                /\ UNCHANGED last
    /\ UNCHANGED <<crawler, unique_index, extra, store, gen, ideal, base, succ, started>>

\* lines 328-336: publish_page; no document: it returns None and
\* published_page["version"] raises
publish_page_find_one_and_update(r) ==
    /\ req[r].pc = "pub_write"
    /\ LET p == req[r].page_id
       IN  /\ store' = publish_page(store, p)
           /\ req' = [req EXCEPT ![r] = IdleReq]
           /\ last' = IF store[p] = NoDoc
                      THEN Answer(r, req[r], 500, "none")
                      ELSE Answer(r, req[r], 200, "ok")
    /\ UNCHANGED <<crawler, unique_index, extra, gen, ideal, base, succ, started>>

-----------------------------------------------------------------------------
(* DELETE /pages/{page_id}: delete_landing_page *)

delete_landing_page(r, page_id) ==
    /\ Free(r)
    /\ store' = delete_page(store, extra, page_id)
    /\ extra' = delete_page_extra(extra, page_id)
    /\ last' = IF store[page_id] = NoDoc
               THEN Response(r, "delete", page_id, "none", 404, "page")
               ELSE Response(r, "delete", page_id, "none", 200, "ok")
    /\ ideal' = [ideal EXCEPT ![page_id] =
                    IF store'[page_id] = NoDoc THEN <<>>
                    ELSE store'[page_id].sections]
    /\ base' = [base EXCEPT ![page_id] =
                   IF store'[page_id] = NoDoc THEN 0
                   ELSE store'[page_id].version]
    /\ succ' = [succ EXCEPT ![page_id] = 0]
    /\ started' = [started EXCEPT ![page_id] = 0]
    /\ UNCHANGED <<crawler, req, gen, unique_index>>

-----------------------------------------------------------------------------
(* Inputs *)

Briefs == {Brief1, Brief2}

WebsiteUrls == {None, "https://brand.example"}

GenerateRequests ==
    {[industry |-> b.industry, offer |-> b.offer,
      target_audience |-> b.target_audience, brand_tone |-> b.brand_tone,
      website_url |-> u] : b \in Briefs, u \in WebsiteUrls}

\* crawler.crawl_website: the folded brand context, or None
CrawlResults == {None, "=== HOME PAGE === URL: https://brand.example"}

\* the crawler runs only for a truthy URL (pages.py 39, generator.py 37)
CrawlOutcomes(website_url) ==
    IF Truthy(website_url) THEN CrawlResults ELSE {None}

\* provider outcomes of a full generation
GenerateOutputs ==
    {[kind |-> "error"],
     [kind |-> "nonjson"],
     [kind |-> "array", value |-> <<>>],
     [kind |-> "object",
      value |-> [pageId |-> "landing-p1", version |-> 1, sections |-> Sections0]],
     [kind |-> "object", value |-> [sections |-> Sections0]],
     [kind |-> "object", value |-> [pageId |-> "landing-p1", version |-> 1]],
     [kind |-> "object",
      value |-> [pageId |-> "landing-p1", version |-> 1,
                 sections |-> <<Hero, [id |-> "faq-1", type |-> "faq",
                                       data |-> DataGenerated]>>]]}

\* provider outcomes of a section regeneration
RegenerateOutputs ==
    {[kind |-> "error"],
     [kind |-> "nonjson"],
     [kind |-> "array", value |-> <<>>],
     [kind |-> "object",
      value |-> [id |-> "hero-1", type |-> "hero", order |-> 0]],
     [kind |-> "object",
      value |-> [id |-> "other-9", type |-> "footer", order |-> 7,
                 data |-> DataRegenerated]]}

\* replacement lists of a reorder request
ReorderLists ==
    {<<[Faq EXCEPT !.order = 0], [Hero EXCEPT !.order = 1]>>}

EditedSections == {"hero-1", "faq-1"}

\* Mutations racing on one page: one well-formed generation, every mutation
\* of its page.
EditedPages == {"landing-p1"}

WellFormedOutput ==
    [kind |-> "object",
     value |-> [pageId |-> "landing-p1", version |-> 1, sections |-> Sections0]]

PlainRequest ==
    [industry |-> Brief1.industry, offer |-> Brief1.offer,
     target_audience |-> Brief1.target_audience,
     brand_tone |-> Brief1.brand_tone, website_url |-> None]

Next ==
    \E r \in Slots :
        \/ \E new_id \in FreshIds :
              generate_landing_page(r, PlainRequest, None, None, "landing-a1",
                                    new_id, WellFormedOutput)
        \/ \E p \in EditedPages, sid \in EditedSections :
              edit_section(r, p, sid, DataEdited)
        \/ \E p \in EditedPages, sid \in EditedSections :
              regenerate_section_endpoint(r, p, sid, EmptyDict)
        \/ \E out \in RegenerateOutputs : regenerate_section_call(r, out, None)
        \/ \E p \in EditedPages, sections \in ReorderLists :
              reorder_sections(r, p, sections)
        \/ update_page_read(r)
        \/ update_page_find_one_and_update(r)

Spec == Init /\ [][Next]_vars

\* The generation pipeline on every input, one request at a time, with
\* deletion to free the identifiers.
NextGen ==
    \E r \in {"r1"} :
        \/ \E request \in GenerateRequests, prompt_id \in PromptIds,
              new_id \in FreshIds, out \in GenerateOutputs :
              \E crawl \in CrawlOutcomes(request.website_url),
                 recrawl \in CrawlOutcomes(Get(request, "url", None)) :
                 generate_landing_page(r, request, crawl, recrawl, prompt_id,
                                       new_id, out)
        \/ \E p \in PageIds : delete_landing_page(r, p)

SpecGen == Init /\ [][NextGen]_vars

\* The lifecycle of one page, one request at a time: generation (well formed,
\* provider failure, parse failure), fetch, every mutation with present and
\* absent page and section ids, publish and delete.
LifeSections == EditedSections \cup {"cta-9"}

\* replacement lists of a reorder request: a permutation with and without
\* renumbered order fields, a list with one id twice, a list with a section
\* that has no id
LifeReorderLists ==
    ReorderLists \cup
    {<<Faq, Hero>>,
     <<Hero, [Faq EXCEPT !.id = "hero-1"]>>,
     <<[type |-> "hero", order |-> 0, data |-> DataGenerated], Faq>>}

LifeOutputs == {WellFormedOutput, [kind |-> "error"], [kind |-> "nonjson"]}

NextLife ==
    \E r \in {"r1"} :
        \/ \E new_id \in FreshIds, out \in LifeOutputs :
              generate_landing_page(r, PlainRequest, None, None, "landing-a1",
                                    new_id, out)
        \/ \E p \in PageIds : get_landing_page(r, p)
        \/ \E p \in PageIds, sid \in LifeSections :
              edit_section(r, p, sid, DataEdited)
        \/ \E p \in PageIds, sid \in LifeSections :
              regenerate_section_endpoint(r, p, sid, EmptyDict)
        \/ \E out \in RegenerateOutputs : regenerate_section_call(r, out, None)
        \/ \E p \in PageIds, sections \in LifeReorderLists :
              reorder_sections(r, p, sections)
        \/ update_page_read(r)
        \/ update_page_find_one_and_update(r)
        \/ \E p \in PageIds : publish_landing_page(r, p)
        \/ publish_page_find_one_and_update(r)
        \/ \E p \in PageIds : delete_landing_page(r, p)

SpecLife == Init /\ [][NextLife]_vars

\* Creation: Generate on provider outputs that carry or omit pageId and
\* version, with the unique index present (init_db succeeded) or missing
\* (api/index.py went on after init_db raised), fetch and delete.
InitCreate ==
    /\ store = [p \in PageIds |-> NoDoc]
    /\ req = [r \in Slots |-> IdleReq]
    /\ last = NoResp
    /\ gen = NoGen
    /\ ideal = [p \in PageIds |-> <<>>]
    /\ base = [p \in PageIds |-> 0]
    /\ succ = [p \in PageIds |-> 0]
    /\ started = [p \in PageIds |-> 0]
    /\ unique_index \in BOOLEAN
    /\ extra = [p \in PageIds |-> <<>>]
    /\ crawler = IdleCrawl

CreateOutputs ==
    {WellFormedOutput,
     [kind |-> "object", value |-> [sections |-> Sections0]],
     [kind |-> "object",
      value |-> [pageId |-> "landing-p1", version |-> 0, sections |-> Sections0]],
     [kind |-> "object", value |-> [sections |-> <<>>]]}

NextCreate ==
    \E r \in {"r1"} :
        \/ /\ \A p \in PageIds : Len(extra[p]) < MaxExtra
           /\ \E request \in {PlainRequest, [PlainRequest EXCEPT !.industry = "saas"]},
                 new_id \in FreshIds, out \in CreateOutputs :
                 generate_landing_page(r, request, None, None, "landing-a1",
                                       new_id, out)
        \/ \E p \in PageIds : get_landing_page(r, p)
        \/ \E p \in PageIds : delete_landing_page(r, p)

SpecCreate == InitCreate /\ [][NextCreate]_vars

-----------------------------------------------------------------------------
(* WebCrawler.crawl_website, one fetch at a time *)

\* `if not home_data`
home_failed(home_data) ==
    home_data = NoPageData

\* (mutant) every link found is fetched
selected_all(inner_links, max_inner_pages) == inner_links

\* inner_links[:max_inner_pages]
selected_links(inner_links, max_inner_pages) ==
    slice_to(inner_links, max_inner_pages)

\* (mutant) the loop ends at the first link whose fetch fails
next_link_break(i, n, page_data) ==
    IF page_data = NoPageData THEN n + 1 ELSE i + 1

\* the for loop goes on to the next link whatever the fetch returned
next_link(i, n, page_data) ==
    i + 1

\* crawl_website is called on a site
StartCrawl(html, failing, max_inner_pages) ==
    [IdleCrawl EXCEPT !.pc = "home", !.max_inner_pages = max_inner_pages,
                      !.site = [html |-> html, failing |-> failing]]

\* lines 28-38: the homepage fetch
crawl_website_home ==
    /\ crawler.pc = "home"
    /\ LET home_data == _fetch_page_data(base_url, crawler.site) IN
       crawler' = IF home_failed(home_data)
                THEN [crawler EXCEPT !.pc = "done",
                                   !.attempted = Append(@, base_url),
                                   !.result = NotAvailable]
                ELSE [crawler EXCEPT !.pc = "links",
                                   !.attempted = Append(@, base_url),
                                   !.pages_data = <<home_data>>]
    /\ UNCHANGED <<store, req, last, gen, ideal, base, succ, started,
                   unique_index, extra>>

\* lines 41-44 and 53-54: the links of the homepage and the slice of them
crawl_website_links ==
    /\ crawler.pc = "links"
    /\ LET html == crawler.pages_data[1].html IN
       IF extract_raises(base_url, html)
       THEN crawler' = [crawler EXCEPT !.pc = "inner", !.i = 1]
       ELSE \E inner_links \in _extract_internal_links(base_url, html) :
                crawler' = [crawler EXCEPT
                             !.pc = "inner", !.i = 1,
                             !.inner_links = inner_links,
                             !.selected = selected_links(inner_links,
                                                         crawler.max_inner_pages)]
    /\ UNCHANGED <<store, req, last, gen, ideal, base, succ, started,
                   unique_index, extra>>

\* lines 44-52: one turn of the loop over the selected links
crawl_website_inner ==
    /\ crawler.pc = "inner"
    /\ crawler.i <= Len(crawler.selected)
    /\ LET link == crawler.selected[crawler.i]
           page_data == _fetch_page_data(link, crawler.site) IN
       crawler' = [crawler EXCEPT
                    !.attempted = Append(@, link),
                    !.pages_data = IF page_data # NoPageData
                                   THEN Append(@, page_data) ELSE @,
                    !.i = next_link(crawler.i, Len(crawler.selected), page_data)]
    /\ UNCHANGED <<store, req, last, gen, ideal, base, succ, started,
                   unique_index, extra>>

\* lines 57-59: the fold of the pages fetched
crawl_website_return ==
    /\ crawler.pc = "inner"
    /\ crawler.i > Len(crawler.selected)
    /\ crawler' = [crawler EXCEPT
                    !.pc = "done",
                    !.result = [kind |-> "str",
                                parts |-> _build_brand_context(crawler.pages_data)]]
    /\ UNCHANGED <<store, req, last, gen, ideal, base, succ, started,
                   unique_index, extra>>

\* the next request with the same website_url: crawl_website runs again on
\* the same markup with the same fetch outcomes
crawl_website_again ==
    /\ crawler.pc = "done"
    /\ crawler.previous = NoRun
    /\ crawler' = [StartCrawl(crawler.site.html, crawler.site.failing,
                            crawler.max_inner_pages)
                    EXCEPT !.previous = [kind |-> "run",
                                         result |-> crawler.result,
                                         selected |-> crawler.selected]]
    /\ UNCHANGED <<store, req, last, gen, ideal, base, succ, started,
                   unique_index, extra>>

\* the markups of the homepage: its anchors in document order
Markups ==
    UNION {[1..n -> Hrefs] : n \in 0..MaxAnchors}

\* the URLs of the site whose fetch can fail
SiteUrls == {base_url, AboutUrl, PricingUrl}

\* Extraction: crawl_website on every markup, every set of failing fetches
\* and every max_inner_pages up to its default, twice per site.
InitCrawl ==
    /\ store = [p \in PageIds |-> NoDoc]
    /\ req = [r \in Slots |-> IdleReq]
    /\ last = NoResp
    /\ gen = NoGen
    /\ ideal = [p \in PageIds |-> <<>>]
    /\ base = [p \in PageIds |-> 0]
    /\ succ = [p \in PageIds |-> 0]
    /\ started = [p \in PageIds |-> 0]
    /\ unique_index = TRUE
    /\ extra = [p \in PageIds |-> <<>>]
    /\ \E html \in Markups, failing \in SUBSET SiteUrls,
          max_inner_pages \in 0..max_inner_pages_default :
          crawler = StartCrawl(html, failing, max_inner_pages)

NextCrawl ==
    \/ crawl_website_home
    \/ crawl_website_links
    \/ crawl_website_inner
    \/ crawl_website_return
    \/ crawl_website_again

SpecCrawl == InitCrawl /\ [][NextCrawl]_vars

-----------------------------------------------------------------------------
(* build_landing_page_prompt on every brief and brand context *)

\* the user_input dicts of generate_landing_page: four fields, any text
ComposeBriefs ==
    [industry : {"bakery", "saas", ""}, offer : {"custom cakes", "ai tool"},
     target_audience : {"event planners", "developers"},
     brand_tone : {"warm", "modern", ""}]

\* crawled_context: absent, empty, or a folded brand context
ComposeContexts == CrawlResults \cup {""}

compose_generation_prompt(user_input, crawled_context, unique_page_id) ==
    /\ gen' = [op |-> "compose", user_input |-> user_input,
               extraction |-> crawled_context,
               prompt |-> build_landing_page_prompt(user_input, crawled_context,
                                                    unique_page_id)]
    /\ UNCHANGED <<crawler, store, req, last, ideal, base, succ, started,
                   unique_index, extra>>

NextCompose ==
    \E user_input \in ComposeBriefs, crawled_context \in ComposeContexts,
       unique_page_id \in PromptIds :
        compose_generation_prompt(user_input, crawled_context, unique_page_id)

SpecCompose == Init /\ [][NextCompose]_vars

-----------------------------------------------------------------------------
(* Regeneration of the faq section on every shape of provider output *)

\* provider outputs for the faq section that json.loads parses to a dict with
\* "data": three new questions, the three questions of the generated
\* section reworded in part, two questions, four questions
FaqOutputs ==
    {[kind |-> "object",
      value |-> [id |-> "faq-1", type |-> "faq", order |-> 1,
                 data |-> DataRegenerated]],
     [kind |-> "object",
      value |-> [id |-> "faq-1", type |-> "faq", order |-> 1,
                 data |-> [items |-> <<"q1", "q7", "q8">>]]],
     [kind |-> "object",
      value |-> [id |-> "faq-1", type |-> "faq", order |-> 1,
                 data |-> [items |-> <<"q7", "q8">>]]],
     [kind |-> "object",
      value |-> [id |-> "faq-1", type |-> "faq", order |-> 1,
                 data |-> [items |-> <<"q7", "q8", "q9", "q10">>]]],
     [kind |-> "nonjson"]}

NextFaq ==
    \E r \in {"r1"} :
        \/ \E new_id \in FreshIds :
              generate_landing_page(r, PlainRequest, None, None, "landing-a1",
                                    new_id, WellFormedOutput)
        \/ \E p \in EditedPages, sid \in EditedSections :
              regenerate_section_endpoint(r, p, sid, EmptyDict)
        \/ \E out \in FaqOutputs : regenerate_section_call(r, out, None)
        \/ update_page_read(r)
        \/ update_page_find_one_and_update(r)

SpecFaq == Init /\ [][NextFaq]_vars

-----------------------------------------------------------------------------
(* Mutations and publish racing with delete on one page *)

\* the provider output of the racing regeneration
RaceOutput ==
    [kind |-> "object",
     value |-> [id |-> "faq-1", type |-> "faq", order |-> 1,
                data |-> DataRegenerated]]

\* a mutation is admitted while the stored version is within the bound: a
\* write that crosses a delete and a new Generate carries the version of the
\* deleted document to the new one, so the version grows over the lifetimes
Admitted(p) == store[p] # NoDoc => store[p].version <= MaxMutations

\* Every mutation and publish of landing-p1 in slot r1, with the deletes and
\* the Generate requests of another client arriving at any point of it.
NextRace ==
    \/ \E r \in {"r1"} :
          \/ \E p \in EditedPages :
                Admitted(p) /\ edit_section(r, p, "hero-1", DataEdited)
          \/ \E p \in EditedPages :
                Admitted(p) /\ regenerate_section_endpoint(r, p, "faq-1", EmptyDict)
          \/ regenerate_section_call(r, RaceOutput, None)
          \/ \E p \in EditedPages, sections \in ReorderLists :
                Admitted(p) /\ reorder_sections(r, p, sections)
          \/ update_page_read(r)
          \/ update_page_find_one_and_update(r)
          \/ \E p \in EditedPages : publish_landing_page(r, p)
          \/ publish_page_find_one_and_update(r)
    \/ \E r \in Slots :
          \/ \E new_id \in FreshIds :
                generate_landing_page(r, PlainRequest, None, None, "landing-a1",
                                      new_id, WellFormedOutput)
          \/ \E p \in EditedPages : delete_landing_page(r, p)

SpecRace == Init /\ [][NextRace]_vars

-----------------------------------------------------------------------------
(* Claims *)

P1 == "landing-p1"

SectionOf(sections, section_id) == sections[ScanIdx(sections, section_id)]

Identity(s) ==
    [id |-> Get(s, "id", None), type |-> Get(s, "type", None),
     order |-> Get(s, "order", -1)]

\* C1: no lost updates.  Whenever mutations of a page have reported success,
\* the stored sections are what those mutations yield applied one after the
\* other in the order of their writes: an edit of one section and an edit or
\* regeneration of another are both reflected.
NoLostUpdates ==
    \A p \in PageIds : store[p] # NoDoc => store[p].sections = ideal[p]

\* C2: the stored version is the version at creation plus the number of
\* mutations that reported success.
VersionCountsSuccesses ==
    \A p \in PageIds : store[p] # NoDoc => store[p].version = base[p] + succ[p]

\* C3: the version of a stored page never decreases from one state to the next.
VersionNeverDecreases ==
    [][\A p \in PageIds :
          (store[p] # NoDoc /\ store'[p] # NoDoc)
              => store'[p].version >= store[p].version]_vars

\* C4: regeneration preserves identity.  The section a regenerate request
\* reads is the stored one, and the section its successful write stores under
\* that id has the id, type and order of the section it read, whatever id,
\* type and order the provider returned; every other section is stored as
\* the request read it.
RegenPreservesIdentity ==
    [][\A r \in Slots :
          /\ (req[r].pc = "idle" /\ req'[r].op = "regen" /\ req'[r].pc = "call")
                => /\ req'[r].section =
                          SectionOf(store[req'[r].page_id].sections,
                                    req'[r].section_id)
                   /\ req'[r].sections = store[req'[r].page_id].sections
          /\ (req[r].op = "regen" /\ req[r].pc = "call" /\ req'[r].pc = "upd_read")
                => /\ Len(req'[r].sections) = Len(req[r].sections)
                   /\ \A i \in 1..Len(req[r].sections) :
                         /\ Identity(req'[r].sections[i]) = Identity(req[r].sections[i])
                         /\ DOMAIN req'[r].sections[i] = DOMAIN req[r].sections[i]
          /\ (req[r].op = "regen" /\ req[r].pc = "upd_write"
                /\ req'[r].pc = "idle"
                /\ last'.slot = r /\ last'.status = 200)
                => LET stored == store'[req[r].page_id].sections
                       i == ScanIdx(stored, req[r].section_id)
                   IN  /\ i # 0
                       /\ Identity(stored[i]) = Identity(req[r].section)
                       /\ stored = req[r].sections]_vars

\* C4 witness: a second successive regeneration of the hero section has been
\* stored, from provider output with another id, type and order.
RegenTwiceStored ==
    /\ last.op = "regen" /\ last.status = 200 /\ last.outcome = "object"
    /\ succ[P1] = 2
    /\ store[P1].version = 3
    /\ last.prompt.current_data = DataRegenerated
    /\ SectionOf(store[P1].sections, "hero-1") =
           [Hero EXCEPT !.data = DataRegenerated]

BadRegenerateOutcomes == {"error", "nonjson", "array", "nodata"}

\* C5: regeneration is all-or-nothing.  No step of a regenerate request before
\* its update_page changes the store, and a request whose provider call
\* failed, returned text that is no JSON or returned no data field ends there
\* with an error response.
RegenFailureWritesNothing ==
    [][\A r \in Slots :
          /\ ((req[r].op = "regen" \/ req'[r].op = "regen")
                /\ req'[r] # req[r] /\ req[r].pc # "upd_write")
                => store' = store
          /\ (req[r].op = "regen" /\ req[r].pc = "call" /\ req'[r] # req[r])
                => LET outcome == IF req'[r].pc = "idle" THEN last'.outcome
                                  ELSE req'[r].outcome
                   IN  outcome \in BadRegenerateOutcomes
                          => /\ req'[r].pc = "idle"
                             /\ last'.slot = r
                             /\ last'.status = 500
          /\ (req[r].op = "regen" /\ req[r].outcome \in BadRegenerateOutcomes)
                => req'[r] = req[r]]_vars

\* C5 witness: a regeneration answered an error for truncated provider text
\* while the page is stored.
RegenParseFailureAnswered ==
    /\ last.op = "regen" /\ last.status = 500 /\ last.outcome = "nonjson"
    /\ store[P1] # NoDoc

\* C6: a Generate whose provider call failed or whose provider text is no JSON
\* leaves the store as it was.
FailedGenerationPersistsNothing ==
    [][(last'.op = "generate" /\ last'.outcome \in {"error", "nonjson"})
          => store' = store]_vars

\* C6 witness: a Generate answered a parse failure while a page is stored.
GenerateParseFailureAnswered ==
    /\ last.op = "generate" /\ last.outcome = "nonjson" /\ last.status = 400
    /\ gen.output.kind = "nonjson" /\ gen.saved = NoDoc
    /\ store[P1] # NoDoc

\* C7: a Generate that answers an error for schema-incompatible provider
\* output has stored no document.
SchemaFailurePersistsNothing ==
    (gen.op = "generate" /\ gen.detail \in {"keyerror", "schema"})
        => gen.saved = NoDoc

\* C8: when a URL was given and the extraction produced a brand context, the
\* prompt sent embeds that context and the primary-reference instruction.
BrandContextReachesPrompt ==
    (gen.op = "generate" /\ Truthy(gen.website_url) /\ Truthy(gen.extraction))
        => /\ gen.prompt.brand_context_section = gen.extraction
           /\ gen.prompt.tone_instruction.kind = "primary_reference"

PromptUsesContext(prompt, doc) ==
    /\ prompt.industry = Get(doc.user_context, "industry", "")
    /\ prompt.offer = Get(doc.user_context, "offer", "")
    /\ prompt.target_audience = Get(doc.user_context, "target_audience", "")
    /\ prompt.brand_tone = Get(doc.user_context, "brand_tone", "")
    /\ prompt.crawl_info =
           IF Truthy(doc.crawled_context) THEN doc.crawled_context ELSE ""

\* C9: a regeneration prompt sent for a request without a context override
\* carries the user context and brand context stored with the page.
RegenReusesStoredContext ==
    \A r \in Slots :
        (req[r].op = "regen" /\ req[r].prompt # NoPrompt
            /\ "context" \notin DOMAIN req[r].data
            /\ store[req[r].page_id] # NoDoc)
            => PromptUsesContext(req[r].prompt, store[req[r].page_id])

WellFormed(out) ==
    /\ out.kind = "object"
    /\ "sections" \in DOMAIN out.value
    /\ \A i \in 1..Len(out.value.sections) : SectionDataValid(out.value.sections[i])

\* C10: a Generate with a URL whose extraction returned NotAvailable sends the
\* prompt the same brief sends without a URL (up to the fresh identifier),
\* persists the context the request without a URL persists (none), and
\* succeeds whenever the provider output is well formed and its id is free.
NotAvailableSameAsNoUrl ==
    (gen.op = "generate" /\ Truthy(gen.website_url) /\ gen.extraction = None)
        => /\ PromptBody(gen.prompt) =
                  PromptBody(generate_page_spec_prompt(
                                 gen.user_input, route_crawled_context(None, None),
                                 None, "landing-a1"))
           /\ gen.saved # NoDoc
                  => /\ gen.saved.crawled_context = route_crawled_context(None, None)
                     /\ gen.saved.crawled_context = None
           /\ (WellFormed(gen.output) /\ gen.detail # "duplicate")
                  => gen.status = 200 /\ gen.saved # NoDoc

\* C10 witness: a Generate with a URL and a failed extraction has stored its page.
NotAvailableGenerateStored ==
    /\ gen.op = "generate" /\ Truthy(gen.website_url) /\ gen.extraction = None
    /\ gen.status = 200 /\ gen.prompt.pageId = "landing-a2"
    /\ store[gen.saved.page_id] = gen.saved

\* C11: edit-section replaces one section's data verbatim.  The write of an
\* edit request that reports success stores the caller's data in the section
\* it names, leaves that section's other fields, every other section and the
\* sequence as they were stored, and the request sent no prompt; no earlier
\* step of the request changes the store.
EditReplacesOneSection ==
    [][\A r \in Slots :
          /\ ((req[r].op = "edit" \/ req'[r].op = "edit")
                /\ req'[r] # req[r] /\ req[r].pc # "upd_write")
                => store' = store /\ gen' = gen
          /\ (req[r].op = "edit" /\ req[r].pc = "upd_write"
                /\ req'[r].pc = "idle" /\ last'.slot = r /\ last'.status = 200)
                => LET before == store[req[r].page_id].sections
                       after == store'[req[r].page_id].sections
                       i == ScanIdx(before, req[r].section_id)
                   IN  /\ i # 0
                       /\ Len(after) = Len(before)
                       /\ after[i].data = req[r].data
                       /\ DOMAIN after[i] = DOMAIN before[i] \cup {"data"}
                       /\ \A k \in DOMAIN before[i] \ {"data"} :
                              after[i][k] = before[i][k]
                       /\ \A j \in 1..Len(before) : j # i => after[j] = before[j]
                       /\ last'.prompt = NoPrompt
                       /\ gen' = gen]_vars

\* C11 witness: an edit of the faq section has been stored next to a
\* regenerated hero section.
EditStoredBesideRegenerated ==
    /\ last.op = "edit" /\ last.status = 200 /\ last.data = DataEdited
    /\ store[P1] # NoDoc
    /\ Len(store[P1].sections) = 2
    /\ store[P1].sections[1] = [Hero EXCEPT !.data = DataRegenerated]
    /\ store[P1].sections[2] = [Faq EXCEPT !.data = DataEdited]

\* C12: publish sets the published flag and nothing else.  The write of a
\* publish request that reports success leaves the document as it was except
\* for published = TRUE, leaves every other document alone, and the read
\* before it changes nothing.
PublishSetsOnlyFlag ==
    [][\A r \in Slots :
          /\ (req[r].pc = "idle" /\ req'[r].op = "publish") => store' = store
          /\ (req[r].op = "publish" /\ req[r].pc = "pub_write"
                /\ req'[r].pc = "idle" /\ last'.slot = r /\ last'.status = 200)
                => LET p == req[r].page_id
                   IN  /\ store'[p].published = TRUE
                       /\ store'[p].version = store[p].version
                       /\ store'[p].sections = store[p].sections
                       /\ store' = [store EXCEPT ![p].published = TRUE]]_vars

\* C12 witness: a page edited twice has been published.
EditedPagePublished ==
    /\ last.op = "publish" /\ last.status = 200
    /\ store[P1] # NoDoc /\ store[P1].published
    /\ store[P1].version = 3
    /\ store[P1].sections # Sections0

LookupOps == {"fetch", "edit", "regen", "reorder", "publish", "delete"}

HasSection(sections, section_id) ==
    \E i \in 1..Len(sections) : Get(sections[i], "id", None) = section_id

\* the request answered in this step found nothing to act on: it is answered
\* not-found, the store is as it was and nothing was sent to the provider
AnsweredNotFound ==
    /\ last'.status = 404
    /\ store' = store
    /\ gen' = gen
    /\ last'.prompt = NoPrompt

\* C13: not-found is reported and changes nothing.  A request other than
\* Generate that is answered in its first step, on a page id that is not
\* stored, or (edit, regenerate) on a section id no section of the stored page
\* has, is answered not-found with the store unchanged and no prompt sent; and
\* no request passes its first step with its page or section missing.
NotFoundChangesNothing ==
    [][/\ ((\A r \in Slots : req[r].pc = "idle") /\ req' = req
            /\ last'.op \in LookupOps)
           => LET p == last'.page_id
              IN  /\ store[p] = NoDoc => AnsweredNotFound
                  /\ (last'.op \in {"edit", "regen"} /\ store[p] # NoDoc
                        /\ ~HasSection(store[p].sections, last'.section_id))
                        => AnsweredNotFound
       /\ \A r \in Slots :
             (req[r].pc = "idle" /\ req'[r].pc # "idle")
                => /\ store[req'[r].page_id] # NoDoc
                   /\ req'[r].op \in {"edit", "regen"}
                         => HasSection(store[req'[r].page_id].sections,
                                       req'[r].section_id)]_vars

\* C14: every section of a stored page has an id no other section of that
\* page has.
SectionIdsUnique ==
    \A p \in PageIds :
        store[p] # NoDoc
            => \A i, j \in 1..Len(store[p].sections) :
                  i # j => /\ "id" \in DOMAIN store[p].sections[i]
                           /\ "id" \in DOMAIN store[p].sections[j]
                           /\ store[p].sections[i].id # store[p].sections[j].id

\* C16: the body of a successful fetch lists the sections in ascending order
\* of their order field.
FetchSortedByOrder ==
    (last.op = "fetch" /\ last.status = 200)
        => \A i, j \in 1..Len(last.data.sections) :
              i < j => last.data.sections[i].order <= last.data.sections[j].order

\* C15: a Generate that reports success has persisted a page whose sections
\* list is not empty.
GeneratedSectionsNonEmpty ==
    (gen.op = "generate" /\ gen.status = 200) => gen.saved.sections # <<>>

\* C17: page identifiers are unique: no page_id is carried by more than one
\* document of the collection.
PageIdsUnique ==
    \A p \in PageIds : extra[p] = <<>>

\* C18: on a successful Generate, a pageId or version the provider supplied
\* is the one persisted and returned; a fresh identifier, or version 1, is
\* assigned only when the provider output omits the field.
DefaultsOnlyWhenOmitted ==
    (gen.op = "generate" /\ gen.status = 200)
        => LET v == gen.output.value
           IN  /\ gen.saved.page_id = gen.returned.pageId
               /\ gen.saved.version = gen.returned.version
               /\ gen.saved.page_id =
                      IF "pageId" \in DOMAIN v THEN v.pageId ELSE gen.saved.page_id
               /\ "pageId" \notin DOMAIN v => gen.saved.page_id \in FreshIds
               /\ gen.saved.version =
                      IF "version" \in DOMAIN v THEN v.version ELSE 1

\* C18 witness: a Generate stored and returned the version 0 its provider
\* output carried.
SuppliedVersionStored ==
    /\ gen.op = "generate" /\ gen.status = 200
    /\ gen.output.value = [pageId |-> "landing-p1", version |-> 0,
                           sections |-> Sections0]
    /\ store[P1] = gen.saved
    /\ gen.returned.version = 0

\* C19: the version of every stored page is at least 1, and the page a
\* successful Generate persisted has version 1.
VersionStartsAtOne ==
    /\ \A p \in PageIds : store[p] # NoDoc => store[p].version >= 1
    /\ (gen.op = "generate" /\ gen.status = 200) => gen.saved.version = 1

\* what the caller observes of a response: the status and the error detail
Observed(status, detail) == [status |-> status, detail |-> detail]

\* what the caller of Generate, or of regenerate-section, observes when the
\* provider answers `out`
ObservedOn(op, out) ==
    IF op = "generate"
    THEN LET res == generate_result(store, Brief1, None, out, "landing-u1")
         IN  Observed(res.status, res.detail)
    ELSE Observed(500, regenerate_apply(Sections0, "hero-1", out).detail)

\* C20: parse failures are surfaced distinctly from provider failures.  What
\* a Generate or regenerate-section request answered for provider text that
\* is no JSON differs from what the same request answers when the provider
\* call fails, and the other way round.
ParseDistinctFromProvider ==
    (last.op \in {"generate", "regen"} /\ last.outcome \in {"nonjson", "error"})
        => LET other == IF last.outcome = "nonjson" THEN "error" ELSE "nonjson"
           IN  /\ Observed(last.status, last.detail)
                      = ObservedOn(last.op, [kind |-> last.outcome])
               /\ Observed(last.status, last.detail)
                      # ObservedOn(last.op, [kind |-> other])

\* C20 witness: a regeneration was answered a parse failure after a Generate
\* was answered a provider failure.
ParseAndProviderFailuresAnswered ==
    /\ last.op = "regen" /\ last.outcome = "nonjson"
    /\ last.status = 500 /\ last.detail = "parse"
    /\ gen.op = "generate" /\ gen.output.kind = "error"
    /\ gen.status = 500 /\ gen.detail = "provider"

\* the URLs of the page blocks of a folded context, in the order of the blocks
BlockUrls(result) ==
    LET markers == SelectSeq(result.parts, LAMBDA x : x.part = "marker")
    IN  [k \in 1..Len(markers) |-> markers[k].url]

\* the call has returned after a homepage fetch that succeeded
Extracted == crawler.pc = "done" /\ base_url \notin crawler.site.failing

Fetched(url) == url \notin crawler.site.failing

\* C21: when the homepage fetch fails, crawl_website returns None (it
\* returns: nothing is raised to the caller) and the homepage is the only
\* URL it ever requested: no inner page is fetched.
HomeFailureNotAvailable ==
    base_url \in crawler.site.failing =>
        /\ crawler.attempted \in {<<>>, <<base_url>>}
        /\ crawler.pc = "done" => crawler.result = NotAvailable

\* the homepage failed on a site whose markup holds internal links
HomeFailedWithLinks ==
    /\ crawler.pc = "done"
    /\ base_url \in crawler.site.failing
    /\ extract_links_set(base_url, crawler.site.html) # {}
    /\ crawler.result = NotAvailable

\* C22: an inner-page failure is isolated.  Whatever subset of the selected
\* links fails, every selected link is requested, a string is returned, and
\* its blocks are the homepage and exactly the selected links whose fetch
\* succeeded.
InnerFailureIsolated ==
    Extracted =>
        /\ crawler.attempted = <<base_url>> \o crawler.selected
        /\ crawler.result.kind = "str"
        /\ BlockUrls(crawler.result)
               = <<base_url>> \o SelectSeq(crawler.selected, Fetched)

\* the first of two selected links failed and the second is in the result
InnerFailedSiblingFetched ==
    /\ Extracted
    /\ Len(crawler.selected) = 2
    /\ ~Fetched(crawler.selected[1])
    /\ Fetched(crawler.selected[2])
    /\ BlockUrls(crawler.result) = <<base_url, crawler.selected[2]>>

\* C23: a returned string has the homepage as its first block and at most
\* 1 + max_inner_pages page blocks; for a homepage without internal links
\* it has the homepage block only.
BlocksBounded ==
    (crawler.pc = "done" /\ crawler.result # NotAvailable) =>
        /\ crawler.result.parts[1]
               = [part |-> "marker", label |-> "HOME PAGE", index |-> 0,
                  url |-> base_url]
        /\ Len(BlockUrls(crawler.result)) <= 1 + crawler.max_inner_pages
        /\ extract_links_set(base_url, crawler.site.html) = {}
               => BlockUrls(crawler.result) = <<base_url>>

\* more links were found than max_inner_pages allows, and all fetches succeed
MoreLinksThanFetched ==
    /\ crawler.pc = "done"
    /\ crawler.result # NotAvailable
    /\ crawler.max_inner_pages = 1
    /\ Len(crawler.inner_links) = 2
    /\ crawler.site.failing = {}
    /\ Len(BlockUrls(crawler.result)) = 2

\* the clean internal URLs of a markup in the order of their first anchors
DiscoveryOrder(html) ==
    LET S == extract_links_set(base_url, html)
        first(u) == CHOOSE j \in DOMAIN html :
                       /\ ~href_skipped(html[j])
                       /\ clean_url(urljoin(base_url, html[j])) = u
                       /\ \A k \in 1..(j - 1) :
                              href_skipped(html[k])
                              \/ clean_url(urljoin(base_url, html[k])) # u
    IN  CHOOSE s \in list_of_set(S) :
            \A a, b \in DOMAIN s : a < b => first(s[a]) < first(s[b])

\* C24: the block order is deterministic.  The inner pages follow the
\* homepage in the order in which their links appear in the homepage
\* markup, and a second extraction over the same markup and fetch outcomes
\* selects the same links and returns the same string.
BlockOrderDeterministic ==
    (Extracted /\ ~extract_raises(base_url, crawler.site.html)) =>
        /\ BlockUrls(crawler.result)
               = <<base_url>>
                 \o SelectSeq(slice_to(DiscoveryOrder(crawler.site.html),
                                       crawler.max_inner_pages), Fetched)
        /\ crawler.previous # NoRun =>
               /\ crawler.selected = crawler.previous.selected
               /\ crawler.result = crawler.previous.result

\* C25: for every brief, a prompt composed without a brand context (None or
\* the empty string) has no brand context block, tells the model to use the
\* brief's brand_tone as the tone, and carries the four fields of the brief;
\* a prompt composed with a brand context carries the block and the
\* primary-reference instruction in place of the literal tone.
ComposedPromptToneAndContext ==
    gen.op = "compose" =>
        LET q == gen.prompt
            b == gen.user_input
        IN  /\ q.industry = b.industry /\ q.offer = b.offer
            /\ q.target_audience = b.target_audience
            /\ q.brand_tone = b.brand_tone
            /\ gen.extraction \in {None, ""} =>
                   /\ q.brand_context_heading = ""
                   /\ q.brand_context_section = ""
                   /\ q.tone_instruction
                          = [kind |-> "literal_tone", tone |-> b.brand_tone]
            /\ gen.extraction \notin {None, ""} =>
                   /\ q.brand_context_heading
                          = "## BRAND CONTEXT (Crawled from Website)"
                   /\ q.brand_context_section = gen.extraction
                   /\ q.tone_instruction.kind = "primary_reference"

\* the bakery brief composed with an empty brand context
EmptyContextComposed ==
    /\ gen.op = "compose"
    /\ gen.extraction = ""
    /\ gen.user_input = Brief1
    /\ gen.prompt.tone_instruction.tone = "warm"

\* C26: when a regeneration of a faq section succeeds, the section stored
\* has exactly 3 items and none of them has the question text of an item of
\* the section that was replaced, whatever output the handler accepted.
FaqRegenThreeNewQuestions ==
    [][\A r \in Slots :
          (/\ req[r].op = "regen" /\ req[r].pc = "upd_write"
           /\ req'[r].pc = "idle"
           /\ last'.slot = r /\ last'.status = 200
           /\ Get(req[r].section, "type", None) = "faq")
              => LET stored == SectionOf(store'[req[r].page_id].sections,
                                         req[r].section_id).data.items
                     replaced == req[r].section.data.items
                 IN  /\ Len(stored) = 3
                     /\ \A i \in DOMAIN stored, j \in DOMAIN replaced :
                            stored[i] # replaced[j]]_vars

\* a request of slot r is between its read of the page and its store write
InFlight(r) == req[r].pc \in {"call", "upd_read", "upd_write", "pub_write"}

\* C27: a mutation racing with a delete answers not-found.  When the store
\* step of an in-flight edit, regeneration, reorder or publish finds that the
\* page is gone, the request is answered 404, never with an internal error.
RacingDeleteAnswersNotFound ==
    [][\A r \in Slots :
          (/\ req[r].pc \in {"upd_read", "upd_write", "pub_write"}
           /\ store[req[r].page_id] = NoDoc
           /\ req'[r].pc = "idle")
              => (last'.slot = r /\ last'.status = 404)]_vars

\* C28: a deleted page is never resurrected.  A page that is absent becomes
\* present only by the insert of a Generate request: no store step of an
\* in-flight edit, regeneration, reorder or publish creates a document.
DeletedPageStaysAbsent ==
    [][\A p \in PageIds :
          (store[p] = NoDoc /\ store'[p] # NoDoc)
              => /\ gen'.op = "generate" /\ gen'.saved = store'[p]
                 /\ \A r \in Slots : InFlight(r) => req'[r] = req[r]]_vars

\* the store step of a request that read the page before its deletion has
\* run, and the page is absent
WriteAfterDeleteDone ==
    /\ last.op \in {"edit", "regen", "reorder", "publish"}
    /\ last.status = 500 /\ last.detail = "none"
    /\ store[P1] = NoDoc

\* C29: content mutations leave identity, context and publication state
\* alone.  While a page is stored, no step changes its page_id, user_context
\* or crawled_context or takes back its published flag, and the store write
\* of an edit, regeneration or reorder leaves the published flag as it was.
MutationsKeepContextAndFlag ==
    [][\A p \in PageIds :
          (store[p] # NoDoc /\ store'[p] # NoDoc)
              => /\ store'[p].page_id = store[p].page_id
                 /\ store'[p].user_context = store[p].user_context
                 /\ store'[p].crawled_context = store[p].crawled_context
                 /\ store[p].published => store'[p].published
                 /\ (\E r \in Slots :
                        req[r].pc = "upd_write" /\ req'[r].pc = "idle")
                        => store'[p].published = store[p].published]_vars

\* a published page has been edited, regenerated or reordered
PublishedPageMutated ==
    /\ last.op \in {"edit", "regen", "reorder"}
    /\ last.status = 200
    /\ store[P1] # NoDoc
    /\ store[P1].published
    /\ store[P1].version > 1

====
